---- MODULE Spec2Model ----
(***************************************************************************)
(* The financial roadmap projection of FinancialPlanner                    *)
(* (src/financial_planning.py): create_financial_roadmap, the year-by-year *)
(* loop that builds the timeline, _analyze_retirement and _analyze_goals,  *)
(* together with the two things of its environment it reads: the holdings  *)
(* the broker client returns (src/portfolio_analyzer.py) and the calendar  *)
(* year of the wall clock.                                                 *)
(*                                                                         *)
(* Numbers.  The program computes in binary floating point.  Money is      *)
(* modelled in whole units; a product with a decimal rate (x * 0.08) is    *)
(* the exact product rounded to the nearest unit, symmetric in sign, as    *)
(* the rounding of a floating-point product is.  Sums and differences are  *)
(* exact.  Ratios are kept in hundredths of a percent, rounded down, so    *)
(* that every comparison with a whole-percent threshold is exact.          *)
(***************************************************************************)
EXTENDS Integers, Sequences, FiniteSets

(***************************************************************************)
(* Bounds of the model                                                     *)
(***************************************************************************)
\* the calendar year the wall clock shows at first
BaseYear == 2026
\* goals in a profile
MaxGoals == 2
\* roadmaps asked of the one planner in a row
MaxRuns == 2
\* times the calendar year rolls over
MaxTicks == 1
\* times the holdings the broker reports change
MaxMoves == 1
\* threads a MarketMonitor is let start, and calls of start_monitoring and
\* stop_monitoring
MaxThreads == 2
MaxMonitorCalls == 4

(***************************************************************************)
(* Program constants                                                       *)
(***************************************************************************)
\* range(current_year, current_year + 40)
Horizon == 40
\* retirement_withdrawal = current_portfolio * 0.04
WithdrawalPct == 4
\* year_income = annual_income * (1.05 ** (year - current_year))
IncomeGrowthPct == 5
\* expected_returns.get(risk_tolerance, 0.08)
DefaultReturnPct == 8
\* fixed-point scale of 1.05 ** k
PowScale == 1000

(***************************************************************************)
(* Input sets                                                              *)
(***************************************************************************)
\* what kite.get_holdings() may return: the value quantity * last_price of
\* each holding (the empty list included)
KiteSnapshots == {<< >>, <<0>>, <<400, 600>>}
\* the tradingsymbol of the i-th holding of a snapshot
KiteSymbols == <<"INFY", "LIQUIDBEES">>
RiskTolerances == {"conservative", "moderate", "aggressive", "balanced"}
Ages == {30}
\* retirement_age - age: already past, now, next year, the last simulated
\* year, the first year after the horizon
RetirementOffsets == {-1, 0, 1, Horizon - 1, Horizon}
MonthlySavings == {0, 2}
Incomes == {0, 70}
GoalNames == <<"Home", "Car", "Travel">>
\* target_year - BaseYear: past, this year, next year, past the horizon
GoalOffsets == {-1, 0, 1, Horizon}
GoalAmounts == {50, 5000}

(***************************************************************************)
(* Arithmetic                                                              *)
(***************************************************************************)
\* n / d rounded to the nearest integer, halves away from zero (d > 0)
Round(n, d) ==
    IF n >= 0 THEN (2 * n + d) \div (2 * d)
              ELSE 0 - ((2 * (0 - n) + d) \div (2 * d))

\* the floating-point product x * (p / 100)
Pct(x, p) == Round(x * p, 100)

\* (1 + IncomeGrowthPct/100) ** k for k in 0..39, to the precision PowScale (the float power is
\* the correctly rounded value, not a repeated product)
Pow105Table ==
    <<
      1000, 1050, 1103, 1158, 1216, 1276, 1340, 1407,
      1477, 1551, 1629, 1710, 1796, 1886, 1980, 2079,
      2183, 2292, 2407, 2527, 2653, 2786, 2925, 3072,
      3225, 3386, 3556, 3733, 3920, 4116, 4322, 4538,
      4765, 5003, 5253, 5516, 5792, 6081, 6385, 6705
    >>

Pow105(k) == Pow105Table[k + 1]

RECURSIVE SumSeq(_)
SumSeq(s) == IF s = << >> THEN 0 ELSE Head(s) + SumSeq(Tail(s))

RECURSIVE SelectSeq2(_, _)
\* [g for g in goals if g["target_year"] == year]
SelectSeq2(goals, year) ==
    IF goals = << >> THEN << >>
    ELSE IF Head(goals).target_year = year
         THEN <<Head(goals)>> \o SelectSeq2(Tail(goals), year)
         ELSE SelectSeq2(Tail(goals), year)

(***************************************************************************)
(* The collaborators create_financial_roadmap reads                        *)
(***************************************************************************)
\* PortfolioIntelligence.analyze_portfolio: summary.total_value, the sum of
\* quantity * last_price over the holdings
TotalValue(hs) == SumSeq(hs)

(***************************************************************************)
(* create_financial_roadmap: the body of the year loop                     *)
(***************************************************************************)
\* expected_returns.get(risk_tolerance, 0.08), in percent
AnnualReturnRate(risk_tolerance) ==
    CASE risk_tolerance = "conservative" -> 6
      [] risk_tolerance = "moderate"     -> 8
      [] risk_tolerance = "aggressive"   -> 10
      [] OTHER                           -> DefaultReturnPct

RECURSIVE InsertByYearBefore(_, _)
\* variant: g put before the goals of s that share its target_year
InsertByYearBefore(g, s) ==
    IF s = << >> THEN <<g>>
    ELSE IF Head(s).target_year < g.target_year
         THEN <<Head(s)>> \o InsertByYearBefore(g, Tail(s))
         ELSE <<g>> \o s

RECURSIVE InsertByYear(_, _)
\* g put behind every goal of s whose target_year is not later than its own
InsertByYear(g, s) ==
    IF s = << >> THEN <<g>>
    ELSE IF Head(s).target_year <= g.target_year
         THEN <<Head(s)>> \o InsertByYear(g, Tail(s))
         ELSE <<g>> \o s

RECURSIVE SortedFrom(_, _)
SortedFrom(goals, acc) ==
    IF goals = << >> THEN acc
    ELSE SortedFrom(Tail(goals), InsertByYear(Head(goals), acc))

\* sorted(financial_goals, key=lambda x: x["target_year"]): a stable sort
\* into a new list
SortedGoals(financial_goals) == SortedFrom(financial_goals, << >>)

\* variant: the goals are sorted in place, financial_goals.sort(key=...)
ProfileAfterSortInPlace(profile) ==
    [profile EXCEPT !.financial_goals = SortedGoals(@)]

\* the client profile after line 85: sorted() builds a new list and leaves
\* the list it is given, and the profile that holds it, as they were
ProfileAfterSorted(profile) == profile

\* variant: the first entry is a year older than the client
EntryAgeFromNextYear(current_age, year, first_year) ==
    current_age + (year - first_year) + 1

\* age = current_age + (year - current_year)
EntryAge(current_age, year, first_year) == current_age + (year - first_year)

\* variant: retirement counted from the year after retirement_age
IsRetiredStrict(age, retirement_age) == age > retirement_age

\* is_retired = age >= retirement_age
IsRetired(age, retirement_age) == age >= retirement_age

\* variant: the savings go on after retirement
YearContributionForLife(is_retired, annual_savings) == annual_savings

\* year_contribution = 0 if is_retired else annual_savings
YearContribution(is_retired, annual_savings) ==
    IF is_retired THEN 0 ELSE annual_savings

\* year_growth = current_portfolio * annual_return_rate
YearGrowth(current_portfolio, rate) == Pct(current_portfolio, rate)

\* variant: only the first goal of the year is taken
YearGoalsFirst(sorted_goals, year) ==
    LET due == SelectSeq2(sorted_goals, year)
    IN  IF due = << >> THEN << >> ELSE <<Head(due)>>

\* variant: a goal is taken in every year it is due or overdue
YearGoalsOverdue(sorted_goals, year) ==
    SelectSeq(sorted_goals, LAMBDA g : g.target_year <= year)

\* year_goals = [g for g in sorted_goals if g["target_year"] == year]
YearGoals(sorted_goals, year) == SelectSeq2(sorted_goals, year)

\* goal_withdrawals = sum(g["target_amount"] for g in year_goals)
GoalWithdrawals(year_goals) ==
    SumSeq([i \in 1..Len(year_goals) |-> year_goals[i].target_amount])

\* variant: the 4% is withdrawn whether retired or not
RetirementWithdrawalAlways(is_retired, current_portfolio) ==
    Pct(current_portfolio, WithdrawalPct)

\* retirement_withdrawal = current_portfolio * 0.04 if is_retired, else 0
RetirementWithdrawal(is_retired, current_portfolio) ==
    IF is_retired THEN Pct(current_portfolio, WithdrawalPct) ELSE 0

\* variant: the balance is floored at zero
NewPortfolioFloored(portfolio, growth, contribution, goals_out, retirement_out) ==
    LET v == portfolio + growth + contribution - goals_out - retirement_out
    IN  IF v < 0 THEN 0 ELSE v

\* variant: the contribution is taken out instead of put in
NewPortfolioMinus(portfolio, growth, contribution, goals_out, retirement_out) ==
    portfolio + growth - contribution - goals_out - retirement_out

\* new_portfolio = current_portfolio + year_growth + year_contribution
\*                 - goal_withdrawals - retirement_withdrawal
NewPortfolio(portfolio, growth, contribution, goals_out, retirement_out) ==
    portfolio + growth + contribution - goals_out - retirement_out

\* year_income: the withdrawal when retired, else the income grown by 5% a
\* year since current_year
YearIncome(is_retired, retirement_withdrawal, annual_income, k) ==
    IF is_retired THEN retirement_withdrawal
                  ELSE Round(annual_income * Pow105(k), PowScale)

\* the dict appended to the timeline for one year
TimelineEntry(profile, goals, first_year, yr, portfolio) ==
    LET age == EntryAge(profile.age, yr, first_year)
        is_retired == IsRetired(age, profile.retirement_age)
        year_contribution ==
            YearContribution(is_retired, profile.monthly_savings * 12)
        year_growth ==
            YearGrowth(portfolio, AnnualReturnRate(profile.risk_tolerance))
        year_goals == YearGoals(goals, yr)
        goal_withdrawals == GoalWithdrawals(year_goals)
        retirement_withdrawal == RetirementWithdrawal(is_retired, portfolio)
    IN  [year |-> yr,
         age |-> age,
         portfolio_value |-> portfolio,
         contribution |-> year_contribution,
         growth |-> year_growth,
         goal_withdrawals |-> goal_withdrawals,
         retirement_withdrawal |-> retirement_withdrawal,
         year_end_portfolio |->
             NewPortfolio(portfolio, year_growth, year_contribution,
                          goal_withdrawals, retirement_withdrawal),
         income |-> YearIncome(is_retired, retirement_withdrawal,
                               profile.income, yr - first_year),
         goals_achieved |->
             [i \in 1..Len(year_goals) |-> year_goals[i].name],
         is_retired |-> is_retired]

\* variant: the withdrawals are not carried into the next year
NextPortfolioGross(entry) ==
    entry.portfolio_value + entry.growth + entry.contribution

\* current_portfolio = new_portfolio, the value the next year starts from
NextPortfolio(entry) == entry.year_end_portfolio

RECURSIVE ProjectYears(_, _, _, _, _, _)
\* the entries the loop appends for the years from..to, the year `from`
\* starting from `portfolio` and each later year from NextPortfolio of the
\* entry before it.  The years are taken in two halves, the later half
\* starting from the last entry of the earlier one, which keeps the
\* evaluation shallow; the entries are those of the loop run in order.
ProjectYears(profile, goals, first_year, from, to, portfolio) ==
    IF from > to THEN << >>
    ELSE IF from = to
    THEN <<TimelineEntry(profile, goals, first_year, from, portfolio)>>
    ELSE LET mid == (from + to) \div 2
             early == ProjectYears(profile, goals, first_year, from, mid,
                                   portfolio)
         IN  early \o ProjectYears(profile, goals, first_year, mid + 1, to,
                                   NextPortfolio(early[Len(early)]))

\* variant: the balance an earlier call ended with is reused
InitialPortfolioCarried(value, carried) ==
    IF carried # 0 THEN carried ELSE value

\* current_portfolio = portfolio_value, before the loop
InitialPortfolio(value, carried) == value

(***************************************************************************)
(* _analyze_retirement                                                     *)
(***************************************************************************)
\* the first ([0]) and the last ([-1]) of the indices a list comprehension
\* over the timeline keeps
Min(S) == CHOOSE x \in S : \A y \in S : x <= y
Max(S) == CHOOSE x \in S : \A y \in S : x >= y

\* n / d rounded down (d > 0)
Floor(n, d) ==
    IF n >= 0 THEN n \div d ELSE 0 - (((0 - n) + d - 1) \div d)

\* variant: without a pre-retirement income the ratio counts as 100 percent
IncomeReplacementRatioFull(sustainable_income, pre_retirement_income) ==
    IF pre_retirement_income > 0
    THEN Floor(sustainable_income * 10000, pre_retirement_income)
    ELSE 10000

\* sustainable_income / pre_retirement_income * 100 if the income is
\* positive, else 0; in hundredths of a percent
IncomeReplacementRatio(sustainable_income, pre_retirement_income) ==
    IF pre_retirement_income > 0
    THEN Floor(sustainable_income * 10000, pre_retirement_income)
    ELSE 0

\* variant: a ratio on a threshold falls into the status below it
RetirementStatusAbove(ratio) ==
    IF ratio > 8000 THEN "Excellent"
    ELSE IF ratio > 6000 THEN "Good"
    ELSE IF ratio > 4000 THEN "Adequate"
    ELSE "Needs Attention"

\* the readiness status of a ratio given in hundredths of a percent
RetirementStatus(ratio) ==
    IF ratio >= 8000 THEN "Excellent"
    ELSE IF ratio >= 6000 THEN "Good"
    ELSE IF ratio >= 4000 THEN "Adequate"
    ELSE "Needs Attention"

\* variant: an end value of exactly half the corpus counts as sustainable
SustainabilityFromHalf(end_portfolio, retirement_corpus) ==
    IF 2 * end_portfolio >= retirement_corpus THEN "Sustainable" ELSE "At Risk"

\* "Sustainable" if end_portfolio > retirement_corpus * 0.5 else "At Risk"
Sustainability(end_portfolio, retirement_corpus) ==
    IF 2 * end_portfolio > retirement_corpus THEN "Sustainable" ELSE "At Risk"

\* variant: the degenerate result carries a normal status
UnknownRetirementNeedsAttention ==
    [status |-> "Needs Attention", retirement_corpus |-> 0,
     sustainable_income |-> 0, income_replacement_ratio |-> 0]

\* the degenerate result: it has no portfolio_sustainability and no
\* portfolio_at_age_90
UnknownRetirement ==
    [status |-> "Unknown", retirement_corpus |-> 0, sustainable_income |-> 0,
     income_replacement_ratio |-> 0]

AnalyzeRetirement(timeline, profile) ==
    LET retirement_entries ==
            {i \in 1..Len(timeline) :
                 timeline[i].age = profile.retirement_age}
        pre_retirement_entries ==
            {i \in 1..Len(timeline) :
                 timeline[i].age = profile.retirement_age - 1}
        retirement_timeline ==
            {i \in 1..Len(timeline) : timeline[i].is_retired}
    IN  IF retirement_entries = {} THEN UnknownRetirement
        ELSE
        LET retirement_entry == timeline[Min(retirement_entries)]
            pre_retirement_income ==
                IF pre_retirement_entries # {}
                THEN timeline[Min(pre_retirement_entries)].income ELSE 0
            retirement_corpus == retirement_entry.portfolio_value
            sustainable_income == Pct(retirement_corpus, WithdrawalPct)
            ratio == IncomeReplacementRatio(sustainable_income,
                                            pre_retirement_income)
            end_portfolio ==
                IF retirement_timeline # {}
                THEN timeline[Max(retirement_timeline)].year_end_portfolio
                ELSE 0
        IN  [status |-> RetirementStatus(ratio),
             retirement_corpus |-> retirement_corpus,
             sustainable_income |-> sustainable_income,
             income_replacement_ratio |-> ratio,
             portfolio_sustainability |->
                 Sustainability(end_portfolio, retirement_corpus),
             portfolio_at_age_90 |-> end_portfolio]

(***************************************************************************)
(* _analyze_goals: the analysis of one goal                                *)
(***************************************************************************)
\* goal_name in entry["goals_achieved"]
NameIn(goal_name, names) == \E i \in 1..Len(names) : names[i] = goal_name

\* variant: the cap is the whole goal, goal_amount / current_portfolio
CurrentAllocationWholeGoal(value, goal_amount, years_to_goal) ==
    LET tier == IF years_to_goal <= 3 THEN 30
                ELSE IF years_to_goal <= 10 THEN 40 ELSE 30
    IN  IF value > 0
        THEN IF goal_amount * 100 < tier * value
             THEN goal_amount
             ELSE Pct(value, tier)
        ELSE Pct(value, 10)

\* variant: the tier percentage is not capped by the size of the goal
CurrentAllocationUncapped(value, goal_amount, years_to_goal) ==
    LET tier == IF years_to_goal <= 3 THEN 30
                ELSE IF years_to_goal <= 10 THEN 40 ELSE 30
    IN  IF value > 0 THEN Pct(value, tier) ELSE Pct(value, 10)

\* current_portfolio * allocation_percent, the percent being 30 (40 for
\* 3 < years_to_goal <= 10) capped at goal_amount / (current_portfolio * 2),
\* or 10 when the portfolio value is not positive
CurrentAllocation(value, goal_amount, years_to_goal) ==
    LET tier == IF years_to_goal <= 3 THEN 30
                ELSE IF years_to_goal <= 10 THEN 40 ELSE 30
    IN  IF value > 0
        THEN IF goal_amount * 100 < tier * (value * 2)
             THEN Round(goal_amount, 2)
             ELSE Pct(value, tier)
        ELSE Pct(value, 10)

\* (current_allocation / goal_amount) * 100, in hundredths of a percent
ProgressPercent(current_allocation, goal_amount) ==
    Floor(current_allocation * 10000, goal_amount)

\* variant: a goal counts as achieved only when its year ends at or above 0
GoalAchievedIfFunded(goal, timeline) ==
    LET goal_timeline ==
            {i \in 1..Len(timeline) : timeline[i].year <= goal.target_year}
    IN  IF goal_timeline # {}
        THEN /\ NameIn(goal.name, timeline[Max(goal_timeline)].goals_achieved)
             /\ timeline[Max(goal_timeline)].year_end_portfolio >= 0
        ELSE FALSE

\* variant: the first entry of goal_timeline is looked at, not the last
GoalAchievedFirstEntry(goal, timeline) ==
    LET goal_timeline ==
            {i \in 1..Len(timeline) : timeline[i].year <= goal.target_year}
    IN  IF goal_timeline # {}
        THEN NameIn(goal.name, timeline[Min(goal_timeline)].goals_achieved)
        ELSE FALSE

\* goal_timeline = [t for t in timeline if t["year"] <= goal_year]; the goal
\* counts as achieved when its name is in the last such entry's
\* goals_achieved, and as not achieved when there is no such entry
GoalAchieved(goal, timeline) ==
    LET goal_timeline ==
            {i \in 1..Len(timeline) : timeline[i].year <= goal.target_year}
    IN  IF goal_timeline # {}
        THEN NameIn(goal.name, timeline[Max(goal_timeline)].goals_achieved)
        ELSE FALSE

\* _get_expected_return_for_timeframe, in percent: the base rate of the risk
\* tolerance (7 when it is not a known one), 2 less for less than 3 years,
\* 1 more for 10 years or more
ExpectedReturnForTimeframe(risk_tolerance, years) ==
    LET base_rate == CASE risk_tolerance = "conservative" -> 5
                       [] risk_tolerance = "moderate"     -> 7
                       [] risk_tolerance = "aggressive"   -> 9
                       [] OTHER                           -> 7
    IN  IF years < 3 THEN base_rate - 2
        ELSE IF years < 10 THEN base_rate
        ELSE base_rate + 1

\* (1 + p/100) ** (1/12) - 1 for p in 1..10 percent a year, in millionths
MonthlyRateTable ==
    <<830, 1652, 2466, 3274, 4074, 4868, 5654, 6434, 7207, 7974>>

\* r = (1 + annual rate) ** (1/12) - 1, in millionths
MonthlyRate(rate_pct) == MonthlyRateTable[rate_pct]

RECURSIVE Compound(_, _)
\* (1 + r) ** n for n = 12 * years months, which is (1 + p/100) ** years,
\* to the precision PowScale; the power is taken by squaring
Compound(rate_pct, years) ==
    IF years = 0 THEN PowScale
    ELSE IF years % 2 = 0
    THEN LET half == Compound(rate_pct, years \div 2)
         IN  Round(half * half, PowScale)
    ELSE Round(Compound(rate_pct, years - 1) * (100 + rate_pct), 100)

\* variant: the formula is applied to a goal marked achieved as well
RequiredMonthlySavingsAnyGoal(risk_tolerance, years_to_goal, goal_achieved, shortfall) ==
    IF years_to_goal > 0
    THEN LET rate == ExpectedReturnForTimeframe(risk_tolerance, years_to_goal)
         IN  Round(shortfall * MonthlyRate(rate),
                   (Compound(rate, years_to_goal) - PowScale) * 10)
    ELSE 0

\* lines 256-262, in hundredths of a unit: 0, and for a goal with years to
\* go that is not marked achieved (shortfall * r) / ((1 + r) ** n - 1)
RequiredMonthlySavings(risk_tolerance, years_to_goal, goal_achieved, shortfall) ==
    IF years_to_goal > 0 /\ ~goal_achieved
    THEN LET rate == ExpectedReturnForTimeframe(risk_tolerance, years_to_goal)
         IN  Round(shortfall * MonthlyRate(rate),
                   (Compound(rate, years_to_goal) - PowScale) * 10)
    ELSE 0

\* _recommend_goal_allocation
RecommendGoalAllocation(years_to_goal) ==
    IF years_to_goal < 3
    THEN [Equity |-> 20, Bonds |-> 50, Cash |-> 30, Gold |-> 0, REIT |-> 0]
    ELSE IF years_to_goal < 7
    THEN [Equity |-> 50, Bonds |-> 30, Cash |-> 10, Gold |-> 5, REIT |-> 5]
    ELSE [Equity |-> 70, Bonds |-> 15, Cash |-> 5, Gold |-> 5, REIT |-> 5]

\* goal_timeline = [t for t in timeline if t["year"] <= goal_year] is not
\* empty
HasGoalTimeline(goal, timeline) ==
    \E i \in 1..Len(timeline) : timeline[i].year <= goal.target_year

GoalAnalysis(goal, timeline, now_year, value, risk_tolerance) ==
    LET years_to_goal == goal.target_year - now_year
        current_allocation ==
            CurrentAllocation(value, goal.target_amount, years_to_goal)
        goal_achieved == GoalAchieved(goal, timeline)
    IN  [name |-> goal.name,
         target_amount |-> goal.target_amount,
         target_year |-> goal.target_year,
         years_remaining |-> years_to_goal,
         current_allocation |-> current_allocation,
         progress_percent |->
             ProgressPercent(current_allocation, goal.target_amount),
         required_monthly_savings |->
             IF HasGoalTimeline(goal, timeline)
             THEN RequiredMonthlySavings(
                      risk_tolerance, years_to_goal, goal_achieved,
                      goal.target_amount - current_allocation)
             ELSE 0,
         projected_to_achieve |-> goal_achieved,
         recommended_allocation |-> RecommendGoalAllocation(years_to_goal)]

(***************************************************************************)
(* InvestmentAdvisor._calculate_asset_class_allocation                     *)
(***************************************************************************)
\* the symbols that contain "GOLD", and those that contain "BEES" or "ETF"
SymbolsWithGold == {"GOLDBEES"}
SymbolsWithBees == {"GOLDBEES", "LIQUIDBEES", "NIFTYBEES"}

\* the if/elif chain over the symbol, in its order
AssetClassOf(symbol) ==
    IF symbol \in SymbolsWithGold THEN "Gold"
    ELSE IF symbol \in SymbolsWithBees THEN "ETF"
    ELSE IF symbol \in {"LIQUIDBEES"} THEN "Cash"
    ELSE IF symbol \in {"EMBASSY", "MINDSPACE"} THEN "REIT"
    ELSE IF symbol \in {"RITES", "IRFC"} THEN "Bonds"
    ELSE "Equity"

AssetClasses == {"Equity", "ETF", "REIT", "Bonds", "Gold", "Cash"}

\* the value held in one asset class
AssetClassValue(hs, class) ==
    SumSeq([i \in 1..Len(hs) |->
               IF AssetClassOf(KiteSymbols[i]) = class THEN hs[i] ELSE 0])

\* the allocation in hundredths of a percent, round(value / total * 100, 2);
\* the values are left as they are when the total is not positive
CalculateAssetClassAllocation(hs) ==
    [class \in AssetClasses |->
        IF TotalValue(hs) > 0
        THEN Round(AssetClassValue(hs, class) * 10000, TotalValue(hs))
        ELSE AssetClassValue(hs, class)]

(***************************************************************************)
(* _generate_roadmap_recommendations                                       *)
(***************************************************************************)
Recommendation(category, priority, description, subject, monthly) ==
    [category |-> category, priority |-> priority,
     description |-> description, subject |-> subject, monthly |-> monthly]

\* variant: a ratio of exactly 60 is taken as too low as well
RetirementRecommendationsUpTo60(analysis) ==
    IF analysis.income_replacement_ratio <= 6000
    THEN <<Recommendation("Retirement", "high",
                          "Increase retirement savings", "", 0)>>
    ELSE << >>

\* lines 344-350: income_replacement_ratio < 60
RetirementRecommendations(analysis) ==
    IF analysis.income_replacement_ratio < 6000
    THEN <<Recommendation("Retirement", "high",
                          "Increase retirement savings", "", 0)>>
    ELSE << >>

\* next((g for g in goals_analysis if g["name"] == goal["name"]), None), as
\* the index of the analysis, 0 for None
FindAnalysis(goal_name, analyses) ==
    LET found == {i \in 1..Len(analyses) : analyses[i].name = goal_name}
    IN  IF found = {} THEN 0 ELSE Min(found)

\* variant: goals due in more than 5 years count as near-term too
IsNearTermAlways(goal, now_year) == TRUE

\* g["target_year"] - current_year <= 5
IsNearTerm(goal, now_year) == goal.target_year - now_year <= 5

RECURSIVE GoalRecommendations(_, _, _)
\* lines 353-364: for the near-term goals in the order of goals, a
\* recommendation when the goal's analysis shows progress below 70 percent
GoalRecommendations(goals, analyses, now_year) ==
    IF goals = << >> THEN << >>
    ELSE LET goal == Head(goals)
             at == FindAnalysis(goal.name, analyses)
             rest == GoalRecommendations(Tail(goals), analyses, now_year)
         IN  IF /\ IsNearTerm(goal, now_year)
                /\ at # 0
                /\ analyses[at].progress_percent < 7000
             THEN <<Recommendation(
                        "Goal Planning", "high", "Accelerate savings",
                        goal.name, analyses[at].required_monthly_savings)>>
                  \o rest
             ELSE rest

\* target_allocations.get(risk_profile, target_allocations["moderate"])
TargetAllocation(risk_profile) ==
    CASE risk_profile = "conservative" ->
             [Equity |-> 40, Bonds |-> 40, Cash |-> 10, Gold |-> 5, REIT |-> 5]
      [] risk_profile = "aggressive" ->
             [Equity |-> 80, Bonds |-> 10, Cash |-> 0, Gold |-> 5, REIT |-> 5]
      [] OTHER ->
             [Equity |-> 60, Bonds |-> 25, Cash |-> 5, Gold |-> 5, REIT |-> 5]

\* the asset classes of a target allocation, in the order of the dict
TargetOrder == <<"Equity", "Bonds", "Cash", "Gold", "REIT">>

\* lines 384-393 for one asset class: a deviation of more than 15 percent
AllocationRecommendation(asset_class, current_pct, target_pct) ==
    IF current_pct - target_pct * 100 > 1500
    THEN <<Recommendation("Asset Allocation", "medium", "Reduce",
                          asset_class, 0)>>
    ELSE IF target_pct * 100 - current_pct > 1500
    THEN <<Recommendation("Asset Allocation", "medium", "Increase",
                          asset_class, 0)>>
    ELSE << >>

\* lines 371-393; allocation is None (<< >> here) without an advisor
AllocationRecommendations(allocation, risk_profile) ==
    IF allocation = << >> THEN << >>
    ELSE LET target == TargetAllocation(risk_profile)
             one(i) == AllocationRecommendation(
                           TargetOrder[i], allocation[TargetOrder[i]],
                           target[TargetOrder[i]])
         IN  one(1) \o one(2) \o one(3) \o one(4) \o one(5)

\* cash_allocation: current_asset_allocation.get("Cash", 0), or 0 for None
CashAllocation(allocation) ==
    IF allocation = << >> THEN 0 ELSE allocation["Cash"]

\* current_cash = total_value * (cash_allocation / 100), in hundredths of a
\* unit
CurrentCash(value, cash_allocation) == Round(value * cash_allocation, 100)

\* variant: a reserve equal to the fund counts as short
EmergencyRecommendationsUpTo(current_cash, income) ==
    IF 2 * current_cash <= income * 100
    THEN <<Recommendation("Emergency Fund", "high", "Build emergency fund",
                          "", 0)>>
    ELSE << >>

\* lines 396-406: current_cash < 6 * (income / 12)
EmergencyRecommendations(current_cash, income) ==
    IF 2 * current_cash < income * 100
    THEN <<Recommendation("Emergency Fund", "high", "Build emergency fund",
                          "", 0)>>
    ELSE << >>

(***************************************************************************)
(* State                                                                   *)
(***************************************************************************)
VARIABLES
    kite_holdings,      \* what kite.get_holdings() returns now
    clock_year,         \* datetime.now().year
    moves,              \* changes of kite_holdings so far
    live,               \* the clock and the broker may move in this behaviour
    holdings,           \* PortfolioIntelligence.holdings
    client_profile,     \* FinancialPlanner.client_profile
    pc,                 \* where create_financial_roadmap stands
    calls_left,         \* calls of create_financial_roadmap still to come
    portfolio_value,    \* locals of create_financial_roadmap ...
    current_year,
    sorted_goals,
    current_portfolio,
    timeline,
    retirement_analysis,
    chart_goals,        \* goals the _analyze_goals of the goals chart has done
    goals_year,         \* current_year of _analyze_goals
    goals_analysis,
    error,              \* the exception the last call raised, or "none"
    previous,           \* the roadmap the call before returned, or NoRoadmap
    advisor,            \* FinancialPlanner.advisor is not None
    rec_year,           \* locals of _generate_roadmap_recommendations ...
    rec_goals_year,     \* current_year of the _analyze_goals it calls
    rec_goals_analysis,
    current_asset_allocation,
    cash_value,         \* the total_value read for current_cash
    recommendations,
    monitored_stocks,   \* MarketMonitor.monitored_stocks, {} before there is one
    running,            \* MarketMonitor.running
    monitoring_thread,  \* MarketMonitor.monitoring_thread, 0 for None
    loop_pc,            \* where each thread stands in _monitoring_loop
    stock_holdings,     \* the holdings _update_stock_data has read last
    caller,             \* "join" while stop_monitoring waits for the thread
    monitor_calls       \* calls of start_monitoring and stop_monitoring so far

vars == <<kite_holdings, clock_year, moves, live, holdings, client_profile, pc,
          calls_left, portfolio_value, current_year, sorted_goals,
          current_portfolio, timeline, chart_goals, retirement_analysis,
          goals_year, goals_analysis, error, previous, advisor, rec_year,
          rec_goals_year, rec_goals_analysis, current_asset_allocation,
          cash_value, recommendations, monitored_stocks, running,
          monitoring_thread, loop_pc, stock_holdings, caller, monitor_calls>>

\* the MarketMonitor and its threads
monitor == <<monitored_stocks, running, monitoring_thread, loop_pc,
             stock_holdings, caller, monitor_calls>>

\* the planner, its collaborators' holdings apart
planner == <<client_profile, pc, calls_left, portfolio_value, current_year,
             sorted_goals, current_portfolio, timeline, chart_goals,
             retirement_analysis, goals_year, goals_analysis, error, previous,
             advisor, rec_year,
             rec_goals_year, rec_goals_analysis, current_asset_allocation,
             cash_value, recommendations>>

\* the locals of _generate_roadmap_recommendations
recs == <<rec_year, rec_goals_year, rec_goals_analysis,
          current_asset_allocation, cash_value, recommendations>>

env == <<kite_holdings, clock_year, moves, live>>

NoRoadmap == [returned |-> FALSE]
NoAnalysis == [status |-> "none"]

\* the sequences of at most MaxGoals goals; the i-th is named GoalNames[i]
GoalLists ==
    UNION {[1..n -> GoalOffsets \X GoalAmounts] : n \in 0..MaxGoals}

MakeGoals(choice) ==
    [i \in 1..Len(choice) |->
        [name |-> GoalNames[i],
         target_amount |-> choice[i][2],
         target_year |-> BaseYear + choice[i][1]]]

Profiles ==
    {[risk_tolerance |-> rt, age |-> a, retirement_age |-> a + ro,
      monthly_savings |-> ms, income |-> inc,
      financial_goals |-> MakeGoals(gl)] :
        rt \in RiskTolerances, a \in Ages, ro \in RetirementOffsets,
        ms \in MonthlySavings, inc \in Incomes, gl \in GoalLists}

\* a planner just constructed, about to be asked for `calls` roadmaps for
\* one of `profiles`
Fresh(profiles, calls) ==
    /\ kite_holdings \in KiteSnapshots
    /\ clock_year = BaseYear
    /\ moves = 0
    /\ live \in BOOLEAN
    /\ holdings = << >>
    /\ client_profile \in profiles
    /\ pc = "idle"
    /\ calls_left = calls
    /\ portfolio_value = 0
    /\ current_year = BaseYear
    /\ sorted_goals = << >>
    /\ current_portfolio = 0
    /\ timeline = << >>
    /\ chart_goals = 0
    /\ retirement_analysis = NoAnalysis
    /\ goals_year = BaseYear
    /\ goals_analysis = << >>
    /\ error = "none"
    /\ previous = NoRoadmap
    /\ advisor \in BOOLEAN
    /\ rec_year = BaseYear
    /\ rec_goals_year = BaseYear
    /\ rec_goals_analysis = << >>
    /\ current_asset_allocation = << >>
    /\ cash_value = 0
    /\ recommendations = << >>
    /\ monitored_stocks = {}
    /\ running = FALSE
    /\ monitoring_thread = 0
    /\ loop_pc = [t \in 1..MaxThreads |-> "unstarted"]
    /\ stock_holdings = << >>
    /\ caller = "ready"
    /\ monitor_calls = 0

\* a saver with an income and a moderate risk tolerance
IsRepeatProfile(p) ==
    /\ p.risk_tolerance = "moderate"
    /\ p.monthly_savings > 0
    /\ p.income > 0

\* one roadmap, any profile, with or without an advisor; the clock and the
\* broker move under the roadmaps of the savers above and hold still under
\* the others
Init ==
    /\ Fresh(Profiles, 1)
    /\ live = IsRepeatProfile(client_profile)

\* MaxRuns roadmaps in a row from the one planner with its advisor, for the
\* profiles of a saver with an income and a moderate risk tolerance
RepeatProfiles == {p \in Profiles : IsRepeatProfile(p)}

InitRepeat ==
    /\ Fresh(RepeatProfiles, MaxRuns)
    /\ live
    /\ advisor

(***************************************************************************)
(* The environment                                                         *)
(***************************************************************************)
Returned == pc \in {"idle", "done", "error"}

\* no call is running and another one is to come
BeforeCall == Returned /\ calls_left > 0

\* the calendar year rolls over; it is read when a roadmap starts, when
\* _analyze_goals starts and when _generate_roadmap_recommendations starts,
\* so a rollover is placed right before a read
Tick ==
    /\ live
    /\ BeforeCall \/ pc \in {"goals_start", "recs_start", "rec_goals_start"}
    /\ clock_year < BaseYear + MaxTicks
    /\ clock_year' = clock_year + 1
    /\ UNCHANGED <<chart_goals, monitor, advisor, recs, kite_holdings, moves, live, holdings, client_profile, pc, calls_left,
                   portfolio_value, current_year, sorted_goals,
                   current_portfolio, timeline, retirement_analysis,
                   goals_year, goals_analysis, error, previous>>

\* the broker reports other holdings; they are read when a roadmap starts,
\* once per goal in each _analyze_goals and once for the cash reserve, so a change
\* is placed right before a read; before the first call the holdings are any
\* of KiteSnapshots already
MarketMove ==
    /\ live
    /\ \/ BeforeCall /\ pc # "idle"
       \/ pc \in {"chart", "goals", "rec_goals", "rec_emergency"}
    /\ moves < MaxMoves
    /\ \E h \in KiteSnapshots \ {kite_holdings} : kite_holdings' = h
    /\ moves' = moves + 1
    /\ UNCHANGED <<chart_goals, monitor, advisor, recs, clock_year, live, holdings, client_profile, pc, calls_left,
                   portfolio_value, current_year, sorted_goals,
                   current_portfolio, timeline, retirement_analysis,
                   goals_year, goals_analysis, error, previous>>

(***************************************************************************)
(* create_financial_roadmap                                                *)
(***************************************************************************)
\* what the call that has just returned leaves for comparison
Kept ==
    IF pc = "done"
    THEN [returned |-> TRUE, current_year |-> current_year,
          current_portfolio |-> portfolio_value, timeline |-> timeline]
    ELSE previous

\* refresh_data() leaves no holdings: analyze_portfolio() returns None and
\* None["summary"] raises TypeError
StartRoadmapNoHoldings ==
    /\ Returned
    /\ calls_left > 0
    /\ kite_holdings = << >>
    /\ holdings' = kite_holdings
    /\ calls_left' = calls_left - 1
    /\ previous' = Kept
    /\ pc' = "error"
    /\ error' = "TypeError"
    /\ timeline' = << >>
    /\ UNCHANGED <<chart_goals, monitor, advisor, recs, env, client_profile, portfolio_value, current_year,
                   sorted_goals, current_portfolio,
                   retirement_analysis, goals_year, goals_analysis>>

\* lines 72-99: refresh, read the portfolio value, sort the goals, read the
\* year, set up the loop
StartRoadmap ==
    /\ Returned
    /\ calls_left > 0
    /\ kite_holdings # << >>
    /\ holdings' = kite_holdings
    /\ calls_left' = calls_left - 1
    /\ previous' = Kept
    /\ error' = "none"
    /\ portfolio_value' = TotalValue(kite_holdings)
    /\ sorted_goals' = SortedGoals(client_profile.financial_goals)
    /\ client_profile' = ProfileAfterSorted(client_profile)
    /\ current_year' = clock_year
    /\ timeline' = << >>
    /\ chart_goals' = 0
    /\ current_portfolio' =
           InitialPortfolio(TotalValue(kite_holdings), current_portfolio)
    /\ retirement_analysis' = NoAnalysis
    /\ goals_analysis' = << >>
    /\ pc' = "loop"
    /\ rec_goals_analysis' = << >>
    /\ current_asset_allocation' = << >>
    /\ cash_value' = 0
    /\ recommendations' = << >>
    /\ UNCHANGED <<monitor, advisor, env, goals_year, rec_year,
                   rec_goals_year>>

\* lines 102-150: the loop over range(current_year, current_year + 40); it
\* reads and writes locals only, so it is one step
ProjectTimeline ==
    /\ pc = "loop"
    /\ timeline' = timeline \o
           ProjectYears(client_profile, sorted_goals, current_year,
                        current_year, current_year + Horizon - 1,
                        current_portfolio)
    /\ current_portfolio' = NextPortfolio(timeline'[Len(timeline')])
    /\ pc' = IF sorted_goals = << >> THEN "retirement" ELSE "chart"
    /\ UNCHANGED <<chart_goals, monitor, advisor, recs, env, holdings, client_profile, calls_left, portfolio_value,
                   current_year, sorted_goals, retirement_analysis,
                   goals_year, goals_analysis, error, previous>>

\* line 154, _generate_goals_chart: its _analyze_goals(goals, timeline), one
\* iteration of the loop over the goals; the analysis goes into the chart
\* alone, the analyze_portfolio() of the iteration refreshes the holdings
ChartGoalStep ==
    /\ pc = "chart"
    /\ holdings # << >>
    /\ holdings' = kite_holdings
    /\ chart_goals' = chart_goals + 1
    /\ pc' = IF chart_goals + 1 < Len(sorted_goals) THEN "chart"
             ELSE "retirement"
    /\ UNCHANGED <<monitor, advisor, recs, env, client_profile, calls_left, portfolio_value, current_year,
                   sorted_goals, current_portfolio, timeline,
                   retirement_analysis, goals_year, goals_analysis, error,
                   previous>>

\* the holdings were left empty by the refresh before: analyze_portfolio()
\* returns None and None["summary"] raises TypeError, out of the chart
ChartGoalNoHoldings ==
    /\ pc = "chart"
    /\ holdings = << >>
    /\ pc' = "error"
    /\ error' = "TypeError"
    /\ UNCHANGED <<chart_goals, monitor, advisor, recs, env, holdings, client_profile, calls_left, portfolio_value,
                   current_year, sorted_goals, current_portfolio,
                   timeline, retirement_analysis, goals_year, goals_analysis,
                   previous>>

\* "retirement_analysis": self._analyze_retirement(timeline)
AnalyzeRetirementStep ==
    /\ pc = "retirement"
    /\ retirement_analysis' = AnalyzeRetirement(timeline, client_profile)
    /\ pc' = "goals_start"
    /\ UNCHANGED <<chart_goals, monitor, advisor, recs, env, holdings, client_profile, calls_left, portfolio_value,
                   current_year, sorted_goals, current_portfolio,
                   timeline, goals_year, goals_analysis, error, previous>>

\* _analyze_goals, lines 221-222: the empty result and the year
StartAnalyzeGoals ==
    /\ pc = "goals_start"
    /\ goals_year' = clock_year
    /\ goals_analysis' = << >>
    /\ pc' = IF sorted_goals = << >> THEN "recs_start" ELSE "goals"
    /\ UNCHANGED <<chart_goals, monitor, advisor, recs, env, holdings, client_profile, calls_left, portfolio_value,
                   current_year, sorted_goals, current_portfolio,
                   timeline, retirement_analysis, error, previous>>

\* _analyze_goals, one iteration of the loop over the goals; its
\* analyze_portfolio() refreshes the holdings and sums them
AnalyzeGoalStep ==
    /\ pc = "goals"
    /\ holdings # << >>
    /\ holdings' = kite_holdings
    /\ LET goal == sorted_goals[Len(goals_analysis) + 1]
       IN  goals_analysis' =
               Append(goals_analysis,
                      GoalAnalysis(goal, timeline, goals_year,
                                   TotalValue(kite_holdings),
                                   client_profile.risk_tolerance))
    /\ pc' = IF Len(goals_analysis) + 1 < Len(sorted_goals) THEN "goals"
             ELSE "recs_start"
    /\ UNCHANGED <<chart_goals, monitor, advisor, recs, env, client_profile, calls_left, portfolio_value, current_year,
                   sorted_goals, current_portfolio, timeline,
                   retirement_analysis, goals_year, error, previous>>

\* _analyze_goals: the holdings were left empty by the refresh before, so
\* analyze_portfolio() returns None and None["summary"] raises TypeError
AnalyzeGoalNoHoldings ==
    /\ pc = "goals"
    /\ holdings = << >>
    /\ pc' = "error"
    /\ error' = "TypeError"
    /\ UNCHANGED <<chart_goals, monitor, advisor, recs, env, holdings, client_profile, calls_left, portfolio_value,
                   current_year, sorted_goals, current_portfolio,
                   timeline, retirement_analysis, goals_year, goals_analysis,
                   previous>>

(***************************************************************************)
(* "recommendations": self._generate_roadmap_recommendations(...)          *)
(***************************************************************************)
\* lines 338-350: the year, the retirement analysis taken again and its
\* recommendation
StartRecommendations ==
    /\ pc = "recs_start"
    /\ rec_year' = clock_year
    /\ recommendations' =
           RetirementRecommendations(AnalyzeRetirement(timeline, client_profile))
    /\ pc' = "rec_goals_start"
    /\ UNCHANGED <<chart_goals, monitor, env, holdings, client_profile, calls_left, portfolio_value,
                   current_year, sorted_goals, current_portfolio, timeline,
                   retirement_analysis, goals_year, goals_analysis, error,
                   previous, advisor, rec_goals_year, rec_goals_analysis,
                   current_asset_allocation, cash_value>>

\* line 354: _analyze_goals called again, its lines 221-222
StartRecGoals ==
    /\ pc = "rec_goals_start"
    /\ rec_goals_year' = clock_year
    /\ rec_goals_analysis' = << >>
    /\ pc' = IF sorted_goals = << >> THEN "rec_allocation" ELSE "rec_goals"
    /\ UNCHANGED <<chart_goals, monitor, env, holdings, client_profile, calls_left, portfolio_value,
                   current_year, sorted_goals, current_portfolio, timeline,
                   retirement_analysis, goals_year, goals_analysis, error,
                   previous, advisor, rec_year, current_asset_allocation,
                   cash_value, recommendations>>

\* one iteration of the loop over the goals in that second _analyze_goals
RecAnalyzeGoalStep ==
    /\ pc = "rec_goals"
    /\ holdings # << >>
    /\ holdings' = kite_holdings
    /\ LET goal == sorted_goals[Len(rec_goals_analysis) + 1]
       IN  rec_goals_analysis' =
               Append(rec_goals_analysis,
                      GoalAnalysis(goal, timeline, rec_goals_year,
                                   TotalValue(kite_holdings),
                                   client_profile.risk_tolerance))
    /\ pc' = IF Len(rec_goals_analysis) + 1 < Len(sorted_goals)
             THEN "rec_goals" ELSE "rec_allocation"
    /\ UNCHANGED <<chart_goals, monitor, env, client_profile, calls_left, portfolio_value,
                   current_year, sorted_goals, current_portfolio, timeline,
                   retirement_analysis, goals_year, goals_analysis, error,
                   previous, advisor, rec_year, rec_goals_year,
                   current_asset_allocation, cash_value, recommendations>>

\* analyze_portfolio() returns None there: TypeError
RecAnalyzeGoalNoHoldings ==
    /\ pc = "rec_goals"
    /\ holdings = << >>
    /\ pc' = "error"
    /\ error' = "TypeError"
    /\ UNCHANGED <<chart_goals, monitor, env, holdings, client_profile, calls_left, portfolio_value,
                   current_year, sorted_goals, current_portfolio, timeline,
                   retirement_analysis, goals_year, goals_analysis, previous,
                   advisor, recs>>

\* lines 353-393: the recommendations for the near-term goals, then the
\* advisor's asset allocation, read from the holdings as they are, and its
\* recommendations
RecommendAllocation ==
    /\ pc = "rec_allocation"
    /\ current_asset_allocation' =
           IF advisor THEN CalculateAssetClassAllocation(holdings) ELSE << >>
    /\ recommendations' =
           recommendations
               \o GoalRecommendations(sorted_goals, rec_goals_analysis,
                                      rec_year)
               \o AllocationRecommendations(current_asset_allocation',
                                            client_profile.risk_tolerance)
    /\ pc' = "rec_emergency"
    /\ UNCHANGED <<chart_goals, monitor, env, holdings, client_profile, calls_left, portfolio_value,
                   current_year, sorted_goals, current_portfolio, timeline,
                   retirement_analysis, goals_year, goals_analysis, error,
                   previous, advisor, rec_year, rec_goals_year,
                   rec_goals_analysis, cash_value>>

\* lines 396-408: analyze_portfolio() once more for the cash reserve, and
\* the roadmap is returned
RecommendEmergencyFund ==
    /\ pc = "rec_emergency"
    /\ holdings # << >>
    /\ holdings' = kite_holdings
    /\ cash_value' = TotalValue(kite_holdings)
    /\ recommendations' =
           recommendations
               \o EmergencyRecommendations(
                      CurrentCash(cash_value',
                                  CashAllocation(current_asset_allocation)),
                      client_profile.income)
    /\ pc' = "done"
    /\ UNCHANGED <<chart_goals, monitor, env, client_profile, calls_left, portfolio_value,
                   current_year, sorted_goals, current_portfolio, timeline,
                   retirement_analysis, goals_year, goals_analysis, error,
                   previous, advisor, rec_year, rec_goals_year,
                   rec_goals_analysis, current_asset_allocation>>

\* analyze_portfolio() returns None there: TypeError
RecommendEmergencyNoHoldings ==
    /\ pc = "rec_emergency"
    /\ holdings = << >>
    /\ pc' = "error"
    /\ error' = "TypeError"
    /\ UNCHANGED <<chart_goals, monitor, env, holdings, client_profile, calls_left, portfolio_value,
                   current_year, sorted_goals, current_portfolio, timeline,
                   retirement_analysis, goals_year, goals_analysis, previous,
                   advisor, recs>>

Next ==
    \/ Tick
    \/ MarketMove
    \/ StartRoadmapNoHoldings
    \/ StartRoadmap
    \/ ProjectTimeline
    \/ ChartGoalStep
    \/ ChartGoalNoHoldings
    \/ AnalyzeRetirementStep
    \/ StartAnalyzeGoals
    \/ AnalyzeGoalStep
    \/ AnalyzeGoalNoHoldings
    \/ StartRecommendations
    \/ StartRecGoals
    \/ RecAnalyzeGoalStep
    \/ RecAnalyzeGoalNoHoldings
    \/ RecommendAllocation
    \/ RecommendEmergencyFund
    \/ RecommendEmergencyNoHoldings

Spec == Init /\ [][Next]_vars

SpecRepeat == InitRepeat /\ [][Next]_vars

(***************************************************************************)
(* MarketMonitor over the same PortfolioIntelligence                       *)
(***************************************************************************)
\* config["market_monitor"]["indices"], one for all
Indices == {"NIFTY 50"}

\* the application calls portfolio.refresh_data() before it builds a monitor
RefreshData ==
    /\ pc = "idle"
    /\ monitored_stocks = {}
    /\ holdings # kite_holdings
    /\ holdings' = kite_holdings
    /\ UNCHANGED <<env, planner, monitor>>

\* MarketMonitor(portfolio): _load_monitored_stocks takes the symbols of the
\* holdings the portfolio has then, and the indices
NewMonitor ==
    /\ pc = "idle"
    /\ monitored_stocks = {}
    /\ monitored_stocks' =
           {KiteSymbols[i] : i \in 1..Len(holdings)} \cup Indices
    /\ UNCHANGED <<env, planner, holdings, running, monitoring_thread,
                   loop_pc, stock_holdings, caller, monitor_calls>>

\* the application thread is free to call the monitor
MayCall ==
    /\ monitored_stocks # {}
    /\ Returned
    /\ caller = "ready"
    /\ monitor_calls < MaxMonitorCalls

\* start_monitoring while running: a warning
StartMonitoringWhileRunning ==
    /\ MayCall
    /\ running
    /\ monitor_calls' = monitor_calls + 1
    /\ UNCHANGED <<env, planner, holdings, monitored_stocks, running,
                   monitoring_thread, loop_pc, stock_holdings, caller>>

\* start_monitoring: the flag, a new thread, its start
StartMonitoring ==
    /\ MayCall
    /\ ~running
    /\ \E t \in 1..MaxThreads :
           /\ loop_pc[t] = "unstarted"
           /\ \A u \in 1..(t - 1) : loop_pc[u] # "unstarted"
           /\ monitoring_thread' = t
           /\ loop_pc' = [loop_pc EXCEPT ![t] = "test"]
    /\ running' = TRUE
    /\ monitor_calls' = monitor_calls + 1
    /\ UNCHANGED <<env, planner, holdings, monitored_stocks, stock_holdings,
                   caller>>

\* stop_monitoring while not running: a warning
StopMonitoringNotRunning ==
    /\ MayCall
    /\ ~running
    /\ monitor_calls' = monitor_calls + 1
    /\ UNCHANGED <<env, planner, holdings, monitored_stocks, running,
                   monitoring_thread, loop_pc, stock_holdings, caller>>

\* stop_monitoring: the flag is cleared and the thread is joined
StopMonitoring ==
    /\ MayCall
    /\ running
    /\ running' = FALSE
    /\ caller' = "join"
    /\ monitor_calls' = monitor_calls + 1
    /\ UNCHANGED <<env, planner, holdings, monitored_stocks,
                   monitoring_thread, loop_pc, stock_holdings>>

\* join(timeout=5.0) returns because the thread has ended
JoinThreadEnded ==
    /\ caller = "join"
    /\ loop_pc[monitoring_thread] = "exited"
    /\ caller' = "ready"
    /\ UNCHANGED <<env, planner, holdings, monitored_stocks, running,
                   monitoring_thread, loop_pc, stock_holdings, monitor_calls>>

\* join(timeout=5.0) returns after 5 seconds, the thread still alive: it
\* is in one of its time.sleep calls, which last update_interval (300
\* seconds) and min(update_interval, 60) seconds
JoinTimeout ==
    /\ caller = "join"
    /\ loop_pc[monitoring_thread] \in {"sleep", "backoff"}
    /\ caller' = "ready"
    /\ UNCHANGED <<env, planner, holdings, monitored_stocks, running,
                   monitoring_thread, loop_pc, stock_holdings, monitor_calls>>

\* a step of thread t in _monitoring_loop from one place to another
LoopStep(t, from, to) ==
    /\ loop_pc[t] = from
    /\ loop_pc' = [loop_pc EXCEPT ![t] = to]

\* variant: the loop does not look at the flag, while True
LoopTestWhileTrue ==
    /\ \E t \in 1..MaxThreads : LoopStep(t, "test", "update")
    /\ UNCHANGED <<env, planner, holdings, monitored_stocks, running,
                   monitoring_thread, stock_holdings, caller, monitor_calls>>

\* while self.running
LoopTest ==
    /\ \E t \in 1..MaxThreads :
           LoopStep(t, "test", IF running THEN "update" ELSE "exited")
    /\ UNCHANGED <<env, planner, holdings, monitored_stocks, running,
                   monitoring_thread, stock_holdings, caller, monitor_calls>>

\* a monitored symbol that is not an index goes to _update_stock_data
MonitorsStock == monitored_stocks \ Indices # {}

\* _update_market_data: for a stock, _update_stock_data reads
\* self.portfolio_intelligence.holdings
UpdateMarketData ==
    /\ \E t \in 1..MaxThreads : LoopStep(t, "update", "news")
    /\ stock_holdings' = IF MonitorsStock THEN holdings ELSE stock_holdings
    /\ UNCHANGED <<env, planner, holdings, monitored_stocks, running,
                   monitoring_thread, caller, monitor_calls>>

\* _update_news
UpdateNews ==
    /\ \E t \in 1..MaxThreads : LoopStep(t, "news", "alerts")
    /\ UNCHANGED <<env, planner, holdings, monitored_stocks, running,
                   monitoring_thread, stock_holdings, caller, monitor_calls>>

\* _check_alerts
CheckAlerts ==
    /\ \E t \in 1..MaxThreads : LoopStep(t, "alerts", "sleep")
    /\ UNCHANGED <<env, planner, holdings, monitored_stocks, running,
                   monitoring_thread, stock_holdings, caller, monitor_calls>>

\* an update raises: the except branch logs and sleeps the shorter time
UpdateRaises ==
    /\ \E t \in 1..MaxThreads :
           \E from \in {"update", "news", "alerts"} :
               LoopStep(t, from, "backoff")
    /\ UNCHANGED <<env, planner, holdings, monitored_stocks, running,
                   monitoring_thread, stock_holdings, caller, monitor_calls>>

\* time.sleep returns
LoopSleep ==
    /\ \E t \in 1..MaxThreads :
           \E from \in {"sleep", "backoff"} : LoopStep(t, from, "test")
    /\ UNCHANGED <<env, planner, holdings, monitored_stocks, running,
                   monitoring_thread, stock_holdings, caller, monitor_calls>>

\* a saver who retires next year and has at most one goal
MonitorProfiles ==
    {p \in RepeatProfiles : /\ p.retirement_age = p.age + 1
                            /\ Len(p.financial_goals) <= 1}

\* one roadmap from a planner with its advisor, the clock and the broker
\* holding still, and a MarketMonitor yet to be built over its portfolio
InitMonitor ==
    /\ Fresh(MonitorProfiles, 1)
    /\ ~live
    /\ advisor

\* the steps of the planner that can be taken while the clock and the
\* broker hold still, and those of the monitor
NextMonitor ==
    \/ StartRoadmapNoHoldings
    \/ StartRoadmap
    \/ ProjectTimeline
    \/ ChartGoalStep
    \/ AnalyzeRetirementStep
    \/ StartAnalyzeGoals
    \/ AnalyzeGoalStep
    \/ StartRecommendations
    \/ StartRecGoals
    \/ RecAnalyzeGoalStep
    \/ RecommendAllocation
    \/ RecommendEmergencyFund
    \/ RefreshData
    \/ NewMonitor
    \/ StartMonitoringWhileRunning
    \/ StartMonitoring
    \/ StopMonitoringNotRunning
    \/ StopMonitoring
    \/ JoinThreadEnded
    \/ JoinTimeout
    \/ LoopTest
    \/ UpdateMarketData
    \/ UpdateNews
    \/ CheckAlerts
    \/ UpdateRaises
    \/ LoopSleep

SpecMonitor == InitMonitor /\ [][NextMonitor]_vars

\* a step of thread t in _monitoring_loop
ThreadStep(t) ==
    /\ \/ LoopTest
       \/ UpdateMarketData
       \/ UpdateNews
       \/ CheckAlerts
       \/ UpdateRaises
       \/ LoopSleep
    /\ loop_pc'[t] # loop_pc[t]

\* the same, every started thread being scheduled again and again and every
\* time.sleep returning: a thread in the loop takes its next step in the end
SpecMonitorFair ==
    SpecMonitor /\ \A t \in 1..MaxThreads : WF_vars(ThreadStep(t))

(***************************************************************************)
(* Roadmaps on the thresholds of the analyses                              *)
(***************************************************************************)
\* incomes that put 4% of a corpus of 1050 to 1100 on 80, 60 and 40 percent
TierIncomes == {55, 70, 105}
\* target_year - BaseYear on both sides of the allocation tiers: up to 3
\* years, more than 3 and up to 10, more than 10; and the last simulated year
TierGoalOffsets == {3, 4, 10, 11, Horizon - 1}
\* target amounts below 30 percent of twice the portfolio value of 1000,
\* between 30 and 40 percent of it, on 40 percent and above; and the amount
\* that, withdrawn in the last year from 1000 invested at 6% by a client who
\* retires next year and saves nothing, leaves 530, half the corpus of 1060
TierGoalAmounts == {50, 700, 800, 1764, 5000}

TierGoalLists ==
    UNION {[1..n -> TierGoalOffsets \X TierGoalAmounts] : n \in 0..1}

\* a client who retires next year, with at most one goal
TierProfiles ==
    {[risk_tolerance |-> rt, age |-> a, retirement_age |-> a + 1,
      monthly_savings |-> ms, income |-> inc,
      financial_goals |-> MakeGoals(gl)] :
        rt \in {"conservative", "moderate"}, a \in Ages,
        ms \in MonthlySavings, inc \in TierIncomes, gl \in TierGoalLists}

\* one roadmap for such a client, the clock and the broker holding still
InitTiers ==
    /\ Fresh(TierProfiles, 1)
    /\ ~live

\* the steps of create_financial_roadmap that can be taken then
NextTiers ==
    \/ StartRoadmapNoHoldings
    \/ StartRoadmap
    \/ ProjectTimeline
    \/ ChartGoalStep
    \/ AnalyzeRetirementStep
    \/ StartAnalyzeGoals
    \/ AnalyzeGoalStep
    \/ StartRecommendations
    \/ StartRecGoals
    \/ RecAnalyzeGoalStep
    \/ RecommendAllocation
    \/ RecommendEmergencyFund

SpecTiers == InitTiers /\ [][NextTiers]_vars

(***************************************************************************)
(* Properties                                                              *)
(***************************************************************************)
Entries == {timeline[i] : i \in 1..Len(timeline)}
Built == Len(timeline) = Horizon
Goals == {client_profile.financial_goals[i] :
              i \in 1..Len(client_profile.financial_goals)}
GoalsDue(y) == {g \in Goals : g.target_year = y}
Names(names) == {names[i] : i \in 1..Len(names)}

RECURSIVE SumAmounts(_)
SumAmounts(S) ==
    IF S = {} THEN 0
    ELSE LET g == CHOOSE x \in S : TRUE
         IN  g.target_amount + SumAmounts(S \ {g})

\* C1: every timeline entry balances: its year-end value is its start value
\* plus growth plus contribution minus goal withdrawals minus retirement
\* withdrawal, whatever the starting value, the profile and the goals
C1_EntryBalances ==
    \A e \in Entries :
        e.year_end_portfolio =
            e.portfolio_value + e.growth + e.contribution
                - e.goal_withdrawals - e.retirement_withdrawal

\* a finished timeline with a working year, a goal year, a retirement year
\* and a year that ends below zero
C1_Witness ==
    /\ Built
    /\ \E e \in Entries : e.contribution > 0 /\ e.growth > 0
    /\ \E e \in Entries : e.goal_withdrawals > 0 /\ e.year_end_portfolio < 0
    /\ \E e \in Entries : e.retirement_withdrawal > 0

\* C2: each entry starts from the year-end value of the entry before it, and
\* the first entry starts from the portfolio value the simulation was given
C2_EntriesChain ==
    /\ \A i \in 1..(Len(timeline) - 1) :
           timeline[i + 1].portfolio_value = timeline[i].year_end_portfolio
    /\ timeline # << >> => timeline[1].portfolio_value = portfolio_value

\* a finished timeline whose value moves in the first year, by a withdrawal
C2_Witness ==
    /\ Built
    /\ portfolio_value > 0
    /\ timeline[1].goal_withdrawals > 0
    /\ timeline[2].portfolio_value # timeline[1].portfolio_value

\* C3: a second roadmap from the same planner, started in the same year from
\* the same portfolio value, has the timeline the roadmap before it had
C3_SameInputsSameTimeline ==
    (/\ previous.returned
     /\ Built
     /\ previous.current_year = current_year
     /\ previous.current_portfolio = portfolio_value)
        => timeline = previous.timeline

\* two roadmaps from equal inputs, with a timeline that is not flat
C3_Witness ==
    /\ previous.returned
    /\ Built
    /\ previous.current_year = current_year
    /\ previous.current_portfolio = portfolio_value
    /\ portfolio_value > 0
    /\ timeline[Horizon].year_end_portfolio # portfolio_value

\* retirement_age <= current_age, a non-positive age or a negative monetary
\* field
InvalidProfile(p) ==
    \/ p.retirement_age <= p.age
    \/ p.age <= 0
    \/ p.monthly_savings < 0
    \/ p.income < 0
    \/ \E i \in 1..Len(p.financial_goals) :
           p.financial_goals[i].target_amount < 0

\* C4: an invalid profile is rejected with a ConfigurationError before the
\* simulation begins, so no timeline entry is ever produced for it
C4_InvalidProfileRejected ==
    InvalidProfile(client_profile) =>
        /\ timeline = << >>
        /\ pc \notin {"loop", "chart", "retirement", "goals_start", "goals",
                      "done"}
        /\ pc = "error" => error = "ConfigurationError"

\* C5: with retirement_age equal to the current age every entry, the first
\* included, is retired and contributes nothing
C5_RetiredFromYearZero ==
    client_profile.retirement_age = client_profile.age =>
        /\ pc \in {"chart", "retirement", "goals_start", "goals", "done"}
               => Built
        /\ \A e \in Entries : e.is_retired /\ e.contribution = 0

\* a finished timeline of a saver whose retirement_age is the current age
C5_Witness ==
    /\ client_profile.retirement_age = client_profile.age
    /\ client_profile.monthly_savings > 0
    /\ Built
    /\ timeline[1].is_retired

\* a pre-retirement year without goal withdrawals of a saver (the return
\* rate is positive for every risk tolerance)
GrowingYear(e) ==
    /\ ~e.is_retired
    /\ e.goal_withdrawals = 0
    /\ client_profile.monthly_savings > 0
    /\ AnnualReturnRate(client_profile.risk_tolerance) > 0

\* C6, as stated: in every pre-retirement entry with zero goal withdrawals
\* and positive savings and return rate, the year-end value is at least the
\* start value, also in the years after a goal withdrawal
C6_GrowingYearNeverShrinks ==
    \A e \in Entries :
        GrowingYear(e) => e.year_end_portfolio >= e.portfolio_value

\* C6, amended: the same, for the entries whose start value is not negative
C6_GrowingYearFromNonNegative ==
    \A e \in Entries :
        (GrowingYear(e) /\ e.portfolio_value >= 0)
            => e.year_end_portfolio >= e.portfolio_value

\* a growing year from a non-negative start that follows a goal withdrawal
C6_Witness ==
    \E i \in 2..Len(timeline) :
        /\ GrowingYear(timeline[i])
        /\ timeline[i].portfolio_value >= 0
        /\ timeline[i].year_end_portfolio > timeline[i].portfolio_value
        /\ \E j \in 1..(i - 1) : timeline[j].goal_withdrawals > 0

Analysed == retirement_analysis # NoAnalysis
RetiredIndices == {i \in 1..Len(timeline) : timeline[i].is_retired}
LastRetired == timeline[Max(RetiredIndices)]

C8_GoalsWithdrawnInTheirYear ==
    /\ \A e \in Entries :
           /\ e.goal_withdrawals = SumAmounts(GoalsDue(e.year))
           /\ Names(e.goals_achieved) = {g.name : g \in GoalsDue(e.year)}
           /\ Len(e.goals_achieved) = Cardinality(GoalsDue(e.year))
    /\ Built =>
           \A g \in Goals :
               (g.target_year \in current_year..(current_year + Horizon - 1))
                   => Cardinality({i \in 1..Horizon :
                          NameIn(g.name, timeline[i].goals_achieved)}) = 1

\* an entry in which two goals are withdrawn
C8_Witness ==
    /\ Built
    /\ \E e \in Entries :
           /\ Len(e.goals_achieved) = 2
           /\ e.goal_withdrawals > Max({g.target_amount : g \in Goals})

PastGoal(g) == g.target_year < current_year
BeyondGoal(g) == g.target_year > current_year + Horizon - 1
AnalysesOf(g) ==
    {goals_analysis[i] : i \in {j \in 1..Len(goals_analysis) :
                                    goals_analysis[j].name = g.name}}

\* C9: a goal due before the starting year, or after the last simulated
\* year, is named in no entry and withdrawn in none (every withdrawal is the
\* sum over the goals the entry names); the past goal's years_remaining is
\* negative and it is reported as not projected to achieve
C9_PastGoalNeverMatched ==
    /\ \A e \in Entries :
           /\ \A g \in Goals :
                  (PastGoal(g) \/ BeyondGoal(g))
                      => ~NameIn(g.name, e.goals_achieved)
           /\ e.goal_withdrawals =
                  SumAmounts({g \in Goals : NameIn(g.name, e.goals_achieved)})
    /\ \A g \in Goals :
           PastGoal(g) =>
               \A a \in AnalysesOf(g) :
                   a.years_remaining < 0 /\ ~a.projected_to_achieve

\* a finished roadmap with a past goal analysed and a goal past the horizon
C9_Witness ==
    /\ pc = "done"
    /\ \E g \in Goals : PastGoal(g) /\ AnalysesOf(g) # {}
    /\ \E g \in Goals : BeyondGoal(g)

\* C10: a retired entry withdraws 4% of its start-of-year value and that is
\* its income; an entry that is not retired withdraws nothing
C10_WithdrawalOfStartValue ==
    \A e \in Entries :
        IF e.age >= client_profile.retirement_age
        THEN /\ e.retirement_withdrawal = Pct(e.portfolio_value, WithdrawalPct)
             /\ e.income = e.retirement_withdrawal
        ELSE e.retirement_withdrawal = 0

\* a retired year in which 4% of the grown value would be another amount,
\* and a working year
C10_Witness ==
    /\ \E e \in Entries :
           /\ e.is_retired
           /\ e.retirement_withdrawal > 0
           /\ Pct(e.portfolio_value + e.growth, WithdrawalPct)
                  # e.retirement_withdrawal
    /\ \E e \in Entries : ~e.is_retired /\ e.portfolio_value > 0

HasRetirementEntry ==
    \E e \in Entries : e.age = client_profile.retirement_age
RetirementEntry ==
    CHOOSE e \in Entries : e.age = client_profile.retirement_age
PreRetirementEntries ==
    {e \in Entries : e.age = client_profile.retirement_age - 1}

\* C11: _analyze_retirement returns status "Unknown" with a zero corpus,
\* sustainable income and ratio exactly when no entry has the retirement age,
\* which is when the retirement age is below the current age or beyond
\* current age + 39; otherwise the status is one of the four normal ones and
\* portfolio_sustainability is "Sustainable" or "At Risk"
C11_UnknownWithoutRetirementEntry ==
    Analysed =>
        /\ HasRetirementEntry <=>
               /\ client_profile.retirement_age >= client_profile.age
               /\ client_profile.retirement_age
                      <= client_profile.age + Horizon - 1
        /\ IF HasRetirementEntry
           THEN /\ retirement_analysis.status \in
                       {"Excellent", "Good", "Adequate", "Needs Attention"}
                /\ "portfolio_sustainability" \in DOMAIN retirement_analysis
                /\ retirement_analysis.portfolio_sustainability \in
                       {"Sustainable", "At Risk"}
           ELSE /\ retirement_analysis.status = "Unknown"
                /\ retirement_analysis.retirement_corpus = 0
                /\ retirement_analysis.sustainable_income = 0
                /\ retirement_analysis.income_replacement_ratio = 0

\* an analysis of a timeline that ends before the retirement age
C11_Witness ==
    /\ Analysed
    /\ Built
    /\ client_profile.retirement_age > client_profile.age + Horizon - 1
    /\ retirement_analysis.status = "Unknown"

\* C12: the income replacement ratio is 0 when the pre-retirement income is
\* 0, which is when the profile's income is 0 or when no entry has the age
\* retirement_age - 1 (retirement in the first simulated year); otherwise it
\* is sustainable_income / pre-retirement income * 100, the sustainable
\* income being 4% of the start-of-year value of the retirement-age entry
C12_RatioZeroWithoutIncome ==
    (Analysed /\ HasRetirementEntry) =>
        /\ retirement_analysis.sustainable_income =
               Pct(RetirementEntry.portfolio_value, WithdrawalPct)
        /\ PreRetirementEntries = {} <=>
               client_profile.retirement_age = client_profile.age
        /\ IF client_profile.income = 0 \/ PreRetirementEntries = {}
           THEN retirement_analysis.income_replacement_ratio = 0
           ELSE \A e \in PreRetirementEntries :
                    /\ e.income > 0
                    /\ retirement_analysis.income_replacement_ratio =
                           Floor(retirement_analysis.sustainable_income * 10000,
                                 e.income)

\* a retirement analysis over a positive corpus for a profile without income
C12_Witness ==
    /\ Analysed
    /\ HasRetirementEntry
    /\ client_profile.income = 0
    /\ PreRetirementEntries # {}
    /\ retirement_analysis.retirement_corpus > 0

\* create_financial_roadmap has sorted the goals of this call
Sorted ==
    pc \in {"loop", "chart", "retirement", "goals_start", "goals",
            "recs_start", "rec_goals_start", "rec_goals", "rec_allocation",
            "rec_emergency", "done"}
\* the first _analyze_goals of this call has returned
GoalsAnalysed ==
    pc \in {"recs_start", "rec_goals_start", "rec_goals", "rec_allocation",
            "rec_emergency", "done"}
\* the _analyze_goals called for the recommendations has returned
RecGoalsAnalysed == pc \in {"rec_allocation", "rec_emergency", "done"}
\* the place of a goal in the profile's list
PlaceOf(g) ==
    CHOOSE k \in 1..Len(client_profile.financial_goals) :
        client_profile.financial_goals[k] = g
\* the analyses follow the goals, one for one
Follows(analyses, goals) ==
    /\ Len(analyses) <= Len(goals)
    /\ \A i \in 1..Len(analyses) :
           /\ analyses[i].name = goals[i].name
           /\ analyses[i].target_amount = goals[i].target_amount
           /\ analyses[i].target_year = goals[i].target_year

\* C13: _analyze_goals returns one analysis per goal in the order of the
\* goals it is given; in a roadmap that order is ascending target_year, goals
\* of the same target_year in the order of the profile
C13_AnalysesInGoalOrder ==
    /\ Follows(goals_analysis, sorted_goals)
    /\ Follows(rec_goals_analysis, sorted_goals)
    /\ GoalsAnalysed => Len(goals_analysis) = Len(sorted_goals)
    /\ RecGoalsAnalysed => Len(rec_goals_analysis) = Len(sorted_goals)
    /\ Sorted =>
           /\ Len(sorted_goals) = Len(client_profile.financial_goals)
           /\ \A i \in 1..Len(sorted_goals) : sorted_goals[i] \in Goals
           /\ \A i, j \in 1..Len(sorted_goals) :
                  i < j =>
                      /\ sorted_goals[i] # sorted_goals[j]
                      /\ sorted_goals[i].target_year
                             <= sorted_goals[j].target_year
                      /\ sorted_goals[i].target_year
                             = sorted_goals[j].target_year
                             => PlaceOf(sorted_goals[i])
                                    < PlaceOf(sorted_goals[j])

\* a returned roadmap for two goals of one target_year
C13_Witness ==
    /\ pc = "done"
    /\ Len(goals_analysis) = 2
    /\ goals_analysis[1].target_year = goals_analysis[2].target_year
    /\ goals_analysis[1].target_amount # goals_analysis[2].target_amount

AllAnalyses ==
    {goals_analysis[i] : i \in 1..Len(goals_analysis)}
        \cup {rec_goals_analysis[i] : i \in 1..Len(rec_goals_analysis)}

\* C14: projected_to_achieve is true exactly when the goal's name is in
\* goals_achieved of the entry of its target_year or, the target_year being
\* past the horizon, of the last entry; it is false when every entry is
\* later than the target_year
C14_ProjectedIffNamedInEntry ==
    \A a \in AllAnalyses :
        a.projected_to_achieve <=>
            IF \E e \in Entries : e.year = a.target_year
            THEN \E e \in Entries : /\ e.year = a.target_year
                                    /\ NameIn(a.name, e.goals_achieved)
            ELSE IF a.target_year > timeline[Len(timeline)].year
            THEN NameIn(a.name, timeline[Len(timeline)].goals_achieved)
            ELSE FALSE

\* a returned roadmap with a goal projected to achieve and one that is not
C14_Witness ==
    /\ pc = "done"
    /\ \E a \in AllAnalyses :
           a.projected_to_achieve /\ a.target_year > current_year
    /\ \E a \in AllAnalyses :
           ~a.projected_to_achieve
               /\ a.target_year > timeline[Len(timeline)].year

\* C15: the required monthly savings are 0 for a goal with no years
\* remaining and for a goal projected to achieve; they are the annuity
\* payment on the shortfall for a goal with years remaining that is not
\* projected to achieve, and the denominator (1 + r) ** n - 1 of that payment
\* is positive for every risk tolerance
C15_AnnuityOnlyWithYearsToGo ==
    \A a \in AllAnalyses :
        /\ a.years_remaining <= 0 => a.required_monthly_savings = 0
        /\ a.projected_to_achieve => a.required_monthly_savings = 0
        /\ a.years_remaining > 0 =>
               \A rt \in RiskTolerances :
                   LET rate ==
                           ExpectedReturnForTimeframe(rt, a.years_remaining)
                   IN  /\ MonthlyRate(rate) > 0
                       /\ Compound(rate, a.years_remaining) > PowScale
        /\ (/\ a.years_remaining > 0
            /\ ~a.projected_to_achieve
            /\ \E e \in Entries : e.year <= a.target_year) =>
               LET rate == ExpectedReturnForTimeframe(
                               client_profile.risk_tolerance,
                               a.years_remaining)
               IN  a.required_monthly_savings =
                       Round((a.target_amount - a.current_allocation)
                                 * MonthlyRate(rate),
                             (Compound(rate, a.years_remaining) - PowScale)
                                 * 10)

\* a returned roadmap with a goal that needs monthly savings and an overdue
\* goal that is not projected to achieve
C15_Witness ==
    /\ pc = "done"
    /\ \E a \in AllAnalyses : a.required_monthly_savings > 0
    /\ \E a \in AllAnalyses :
           /\ a.years_remaining <= 0
           /\ ~a.projected_to_achieve
           /\ a.required_monthly_savings = 0

\* the places of the recommendations with a description and a subject
RecsOf(description, subject) ==
    {i \in 1..Len(recommendations) :
         /\ recommendations[i].description = description
         /\ recommendations[i].subject = subject}
\* lines 341-350 of _generate_roadmap_recommendations have run
RetirementRecommended ==
    pc \in {"rec_goals_start", "rec_goals", "rec_allocation", "rec_emergency",
            "done"}
\* lines 352-393 have run
GoalsRecommended == pc \in {"rec_emergency", "done"}

\* C16: the high-priority "Increase retirement savings" recommendation is
\* there once when the income replacement ratio of the retirement analysis
\* is below 60 (the "Unknown" analysis with its ratio of 0 included) and not
\* at all when the ratio is 60 or more
C16_RetirementAdviceBelow60 ==
    RetirementRecommended =>
        /\ Cardinality(RecsOf("Increase retirement savings", "")) =
               IF retirement_analysis.income_replacement_ratio < 6000
               THEN 1 ELSE 0
        /\ \A i \in RecsOf("Increase retirement savings", "") :
               /\ recommendations[i].priority = "high"
               /\ recommendations[i].category = "Retirement"

\* a returned roadmap whose ratio is exactly 60 and which does not advise
\* to increase the retirement savings
C16_Witness ==
    /\ pc = "done"
    /\ retirement_analysis.income_replacement_ratio = 6000
    /\ RecsOf("Increase retirement savings", "") = {}

\* the analysis of a goal among those made for the recommendations
RecAnalysisOf(g) ==
    rec_goals_analysis[
        CHOOSE i \in 1..Len(rec_goals_analysis) :
            rec_goals_analysis[i].name = g.name]

\* C17: a goal due within 5 years of the current year whose progress is
\* below 70 percent gets one high-priority "Accelerate savings"
\* recommendation that names its required monthly savings; a goal due later
\* or with more progress gets none
C17_AccelerateNearTermGoals ==
    GoalsRecommended =>
        \A g \in Goals :
            /\ Cardinality(RecsOf("Accelerate savings", g.name)) =
                   IF /\ g.target_year - rec_year <= 5
                      /\ RecAnalysisOf(g).progress_percent < 7000
                   THEN 1 ELSE 0
            /\ \A i \in RecsOf("Accelerate savings", g.name) :
                   /\ recommendations[i].priority = "high"
                   /\ recommendations[i].monthly =
                          RecAnalysisOf(g).required_monthly_savings

\* a returned roadmap that advises on a goal due next year and not on a
\* goal due after the horizon
C17_Witness ==
    /\ pc = "done"
    /\ \E g \in Goals :
           /\ g.target_year = rec_year + 1
           /\ RecsOf("Accelerate savings", g.name) # {}
    /\ \E g \in Goals :
           /\ g.target_year - rec_year > 5
           /\ RecsOf("Accelerate savings", g.name) = {}

\* the cash reserve the emergency-fund check works with, in hundredths of a
\* unit: the portfolio value times the Cash percent of the advisor's
\* allocation, 0 without an advisor
CashReserve ==
    IF advisor
    THEN Round(cash_value * current_asset_allocation["Cash"], 100)
    ELSE 0

\* C18: the high-priority "Build emergency fund" recommendation is there
\* when the cash reserve is below 6 * (income / 12) and is not there when the
\* reserve is that amount or more; when it is there it is the last one
C18_EmergencyFundBelowSixMonths ==
    pc = "done" =>
        /\ Cardinality(RecsOf("Build emergency fund", "")) =
               IF 2 * CashReserve < client_profile.income * 100
               THEN 1 ELSE 0
        /\ \A i \in RecsOf("Build emergency fund", "") :
               /\ i = Len(recommendations)
               /\ recommendations[i].priority = "high"

\* a returned roadmap that ends with the emergency-fund recommendation
\* after others, the allocation coming from an advisor
C18_Witness ==
    /\ pc = "done"
    /\ advisor
    /\ cash_value > 0
    /\ Len(recommendations) > 2
    /\ RecsOf("Build emergency fund", "") # {}

C19_MonitorSharesNoHoldings ==
    \A t \in 1..MaxThreads :
        (loop_pc[t] = "update" /\ MonitorsStock) => Returned

\* the analyzers of create_financial_roadmap are at work: the goals chart,
\* _analyze_retirement, _analyze_goals, _generate_roadmap_recommendations
Analysing ==
    pc \in {"chart", "retirement", "goals_start", "goals", "recs_start",
            "rec_goals_start", "rec_goals", "rec_allocation", "rec_emergency"}

\* C21: a roadmap computation leaves its inputs unchanged: no step changes
\* the client profile, the order and content of its financial_goals
\* included, and no step of the analyzers changes an entry of the timeline
C21_InputsUnchanged ==
    [][/\ client_profile' = client_profile
       /\ Analysing => timeline' = timeline]_vars

\* a returned roadmap for a profile whose goals are not in target_year
\* order, the goals sorted for the roadmap and the profile's list as it was
C21_Witness ==
    /\ pc = "done"
    /\ Built
    /\ Len(goals_analysis) = 2
    /\ sorted_goals # client_profile.financial_goals
    /\ client_profile.financial_goals[1].target_year
           > client_profile.financial_goals[2].target_year

\* the year loop of this call has run
Projected == pc \in {"chart", "done"} \/ Analysing

\* C22: the timeline has exactly 40 entries; their years are consecutive
\* and ascending from the current calendar year, and the k-th entry (k from
\* 0) has the age current_age + k
C22_FortyConsecutiveYears ==
    /\ Projected => Len(timeline) = Horizon
    /\ timeline # << >> =>
           /\ Len(timeline) = Horizon
           /\ current_year \in BaseYear..clock_year
           /\ \A k \in 0..(Len(timeline) - 1) :
                  /\ timeline[k + 1].year = current_year + k
                  /\ timeline[k + 1].age = client_profile.age + k

\* a returned roadmap that was started after the year had rolled over
C22_Witness ==
    /\ pc = "done"
    /\ timeline[1].year = BaseYear + 1
    /\ timeline[Horizon].year = BaseYear + Horizon
    /\ timeline[Horizon].age = client_profile.age + Horizon - 1

\* C23: an entry is retired exactly when its age is at least the retirement
\* age; its contribution is 0 when it is retired and monthly_savings * 12
\* when it is not; after a retired entry every entry is retired and
\* contributes nothing
C23_RetiredForGood ==
    \A i \in 1..Len(timeline) :
        /\ timeline[i].is_retired <=>
               timeline[i].age >= client_profile.retirement_age
        /\ timeline[i].contribution =
               IF timeline[i].is_retired THEN 0
               ELSE client_profile.monthly_savings * 12
        /\ timeline[i].is_retired =>
               \A j \in (i + 1)..Len(timeline) :
                   /\ timeline[j].is_retired
                   /\ timeline[j].contribution = 0

\* the timeline of a saver who retires next year: a working year with its
\* contribution, then retired years to the end
C23_Witness ==
    /\ Built
    /\ client_profile.retirement_age = client_profile.age + 1
    /\ ~timeline[1].is_retired
    /\ timeline[1].contribution > 0
    /\ timeline[2].is_retired
    /\ timeline[Horizon].contribution = 0

\* C24: with a retirement-age entry the status follows the income
\* replacement ratio, each tier including its lower bound: 80 and more is
\* Excellent, 60 to below 80 Good, 40 to below 60 Adequate, below 40 Needs
\* Attention; one status and one only applies to every ratio
C24_StatusByInclusiveThresholds ==
    (Analysed /\ HasRetirementEntry) =>
        LET ratio == retirement_analysis.income_replacement_ratio
            status == retirement_analysis.status
        IN  /\ status = "Excellent" <=> ratio >= 8000
            /\ status = "Good" <=> (ratio >= 6000 /\ ratio < 8000)
            /\ status = "Adequate" <=> (ratio >= 4000 /\ ratio < 6000)
            /\ status = "Needs Attention" <=> ratio < 4000
            /\ Cardinality({st \in {"Excellent", "Good", "Adequate",
                                     "Needs Attention"} : st = status}) = 1

\* an analysis with a ratio of exactly 80 percent that reads Excellent
C24_Witness ==
    /\ Analysed
    /\ retirement_analysis.income_replacement_ratio = 8000
    /\ retirement_analysis.status = "Excellent"

\* analyses with ratios of exactly 60, of exactly 40 and of less than 40
\* percent are reached as well
C24_WitnessGood ==
    /\ Analysed
    /\ retirement_analysis.income_replacement_ratio = 6000
    /\ retirement_analysis.status = "Good"
C24_WitnessAdequate ==
    /\ Analysed
    /\ retirement_analysis.income_replacement_ratio = 4000
    /\ retirement_analysis.status = "Adequate"
C24_WitnessNeedsAttention ==
    /\ Analysed
    /\ retirement_analysis.income_replacement_ratio \in 1..3999
    /\ retirement_analysis.status = "Needs Attention"

\* C25: portfolio_sustainability is "Sustainable" exactly when the year-end
\* value of the last retired entry is greater than half the retirement
\* corpus, the start-of-year value of the entry with the retirement age; it
\* is "At Risk" otherwise, and so when the two are equal
C25_SustainableAboveHalfCorpus ==
    (Analysed /\ HasRetirementEntry) =>
        /\ RetiredIndices # {}
        /\ retirement_analysis.retirement_corpus
               = RetirementEntry.portfolio_value
        /\ retirement_analysis.portfolio_sustainability =
               IF 2 * LastRetired.year_end_portfolio
                      > RetirementEntry.portfolio_value
               THEN "Sustainable" ELSE "At Risk"

\* an analysis whose last retired entry ends on exactly half of a positive
\* corpus, and which reads At Risk
C25_Witness ==
    /\ Analysed
    /\ HasRetirementEntry
    /\ RetirementEntry.portfolio_value > 0
    /\ 2 * LastRetired.year_end_portfolio = RetirementEntry.portfolio_value
    /\ retirement_analysis.portfolio_sustainability = "At Risk"

\* an analysis that reads Sustainable is reached as well
C25_WitnessSustainable ==
    /\ Analysed
    /\ HasRetirementEntry
    /\ 2 * LastRetired.year_end_portfolio > RetirementEntry.portfolio_value
    /\ LastRetired.goal_withdrawals > 0
    /\ retirement_analysis.portfolio_sustainability = "Sustainable"

\* the tier percentage of a goal: 30 up to 3 years, 40 above 3 and up to 10
\* years, 30 above 10
TierPercent(years_remaining) ==
    IF years_remaining <= 3 THEN 30
    ELSE IF years_remaining <= 10 THEN 40
    ELSE 30

\* C26: the share of the portfolio earmarked for a goal is its tier
\* percentage, or target_amount / (2 * portfolio value) when that is smaller,
\* or 10% when the portfolio value is zero; current_allocation is the
\* portfolio value times the share, progress_percent is current_allocation /
\* target_amount * 100
C26_AllocationByTierAndCap ==
    \A a \in AllAnalyses :
        LET tier == TierPercent(a.years_remaining)
            capped == a.target_amount * 100 < tier * (2 * portfolio_value)
        IN  /\ a.current_allocation =
                   IF portfolio_value = 0 THEN 0
                   ELSE IF capped THEN Round(a.target_amount, 2)
                   ELSE Pct(portfolio_value, tier)
            /\ a.progress_percent =
                   Floor(a.current_allocation * 10000, a.target_amount)

\* a returned roadmap with a goal 4 years away that gets the full 40
\* percent of the portfolio
C26_Witness ==
    /\ pc = "done"
    /\ portfolio_value > 0
    /\ \E a \in AllAnalyses :
           /\ a.years_remaining = 4
           /\ a.current_allocation = Pct(portfolio_value, 40)
           /\ a.current_allocation < Round(a.target_amount, 2)

\* the other cases are reached as well: a goal 10 years away whose share is
\* capped below 40 percent, a goal 11 years away and one 3 years away at 30
\* percent, a goal whose cap equals its tier, and an empty portfolio
C26_WitnessCapped ==
    \E a \in AllAnalyses :
        /\ a.years_remaining = 10
        /\ a.current_allocation = Round(a.target_amount, 2)
        /\ a.current_allocation > Pct(portfolio_value, 30)
        /\ a.current_allocation < Pct(portfolio_value, 40)
C26_WitnessLongTerm ==
    \E a \in AllAnalyses :
        /\ a.years_remaining = 11
        /\ portfolio_value > 0
        /\ a.current_allocation = Pct(portfolio_value, 30)
        /\ a.current_allocation < Round(a.target_amount, 2)
C26_WitnessShortTerm ==
    \E a \in AllAnalyses :
        /\ a.years_remaining = 3
        /\ portfolio_value > 0
        /\ a.current_allocation = Pct(portfolio_value, 30)
        /\ a.current_allocation < Round(a.target_amount, 2)
C26_WitnessCapOnTier ==
    \E a \in AllAnalyses :
        /\ portfolio_value > 0
        /\ a.target_amount * 100
               = TierPercent(a.years_remaining) * (2 * portfolio_value)
C26_WitnessNoPortfolio ==
    /\ pc = "done"
    /\ portfolio_value = 0
    /\ \E a \in AllAnalyses : a.current_allocation = 0

WithinHorizon(a) ==
    a.target_year \in current_year..(current_year + Horizon - 1)

\* C28: a goal whose target_year is one of the 40 simulated years is
\* reported as projected to achieve with required monthly savings of 0,
\* whatever the balance of that year, a negative one included; required
\* monthly savings other than 0 are reported only for a goal whose
\* target_year is past the horizon
C28_GoalInHorizonAlwaysAchieved ==
    \A a \in AllAnalyses :
        /\ WithinHorizon(a) =>
               /\ a.projected_to_achieve
               /\ a.required_monthly_savings = 0
        /\ a.required_monthly_savings # 0 =>
               a.target_year > current_year + Horizon - 1

\* a returned roadmap with a goal whose withdrawal leaves its year below
\* zero and which is reported as projected to achieve, and a goal past the
\* horizon with required monthly savings
C28_Witness ==
    /\ pc = "done"
    /\ \E a \in AllAnalyses :
           /\ WithinHorizon(a)
           /\ a.projected_to_achieve
           /\ \E e \in Entries :
                  /\ e.year = a.target_year
                  /\ e.portfolio_value >= 0
                  /\ e.year_end_portfolio < 0
    /\ \E a \in AllAnalyses :
           /\ ~WithinHorizon(a)
           /\ a.required_monthly_savings > 0

\* the threads that are executing _monitoring_loop
LoopThreads ==
    {t \in 1..MaxThreads : loop_pc[t] \notin {"unstarted", "exited"}}

\* C29: after any calls of start_monitoring and stop_monitoring on one
\* MarketMonitor at most one thread is executing _monitoring_loop, a
\* start_monitoring after a returned stop_monitoring included
C29_AtMostOneLoopThread == Cardinality(LoopThreads) <= 1

\* a thread begins an iteration of the loop in this step
BeginsIteration(t) == loop_pc[t] # "update" /\ loop_pc'[t] = "update"

\* this step is a call of stop_monitoring on a monitor that is not running
StopsNotRunning ==
    /\ ~running
    /\ ~running'
    /\ monitor_calls' # monitor_calls

\* C30: a thread begins an iteration of updates only after it has found the
\* flag set, so after stop_monitoring it ends the iteration in progress, by
\* its sleep or by the except branch, and begins no other; when the monitor
\* is not started again every thread of the loop exits in the end; and
\* stop_monitoring on a monitor that is not running changes nothing
C30_LoopEndsAfterStop ==
    /\ [][\A t \in 1..MaxThreads :
              BeginsIteration(t) => (loop_pc[t] = "test" /\ running)]_vars
    /\ [][StopsNotRunning =>
              UNCHANGED <<holdings, monitored_stocks, running,
                          monitoring_thread, loop_pc, stock_holdings,
                          caller>>]_vars
    /\ <>[](~running) => <>[](LoopThreads = {})

\* a monitor stopped for the second time, both its threads started and
\* ended
C30_Witness ==
    /\ ~running
    /\ caller = "ready"
    /\ monitoring_thread = MaxThreads
    /\ \A t \in 1..MaxThreads : loop_pc[t] = "exited"

====
